---- MODULE Spec2Model ----
(***************************************************************************)
(* Model of the animal-shelter dashboard: the filter callback of           *)
(* src/src/dashboard.py over the working dataset prepared by               *)
(* src/src/utils.py, and the data-access object of src/src/crud.py over a  *)
(* document collection.                                                    *)
(***************************************************************************)
EXTENDS Integers, Sequences, FiniteSets, TLC

VARIABLES
    csv,            \* the rows of ../data/aac_shelter_outcomes.csv
    raw,            \* the dataframe load_animal_data returned
    df,             \* dashboard.py: the module-level working dataset
    pc,             \* startup: "file", "loaded", "prepared"; the page: "start"
                    \* before the page-load invocation, then "ready"
    animal_type,    \* value of the animal-type-filter dropdown
    breed,          \* value of the breed-filter dropdown
    age_range,      \* value of the age-range-slider, <<min, max>>
    breed_options,  \* options of the breed-filter dropdown (their values)
    table,          \* data of datatable-id
    call,           \* arguments of the last filter-callback invocation
    raised,         \* the last filter-callback invocation raised
    collection,     \* crud.py: documents of the collection, in natural order
    op,             \* the last data-access call: arguments, store outcome, result
    connected       \* crud.py: __init__ set self.collection (no connection error)

dashVars == <<csv, raw, df, pc, animal_type, breed, age_range, breed_options, table, call, raised>>
crudVars == <<collection, op, connected>>
vars == <<csv, raw, df, pc, animal_type, breed, age_range, breed_options, table, call, raised,
          collection, op, connected>>

(***************************************************************************)
(* Bounds of the model.                                                    *)
(***************************************************************************)
\* Source rows of the CSV file that a run may contain (a sub-list of the first MaxRows).
MaxRows == 6
\* Documents the collection holds at most.
MaxDocs == 2
\* Largest age, in weeks, of the one-row files the startup is run on.
MaxWeeks == 130

(***************************************************************************)
(* Python values.                                                          *)
(***************************************************************************)
\* Python None (a cleared dropdown; no triggering property).
NoneVal == "<None>"
\* A missing text cell of the CSV file (pandas NaN in an object column).
NullStr == "<NaN>"
\* A missing age (pandas NaN in a numeric column); every comparison with it is false.
NaN == -1

\* Python truthiness of a control value: None and '' are falsy.
Truthy(v) == v \notin {NoneVal, ""}

\* weeks <= bound on a pandas numeric column: false for NaN.
AgeLe(a, b) == a # NaN /\ a <= b
\* weeks > bound: false for NaN.
AgeGt(a, b) == a # NaN /\ a > b
\* weeks >= bound: false for NaN.
AgeGe(a, b) == a # NaN /\ a >= b

(***************************************************************************)
(* The source file and the data loader (utils.py).                         *)
(***************************************************************************)
\* Names are tuples of characters, so that the name cleanup can be computed.
\* A missing name cell, and the text 'Unknown' as a name.
NameNaN == <<NullStr>>
NameUnknown == <<"U", "n", "k", "n", "o", "w", "n">>

\* Rows the source file may hold: the schema of the spec, with the cases the
\* filters distinguish (band edges 52/312, an age above the slider, a missing
\* age, a missing breed, a breed shared by two types, missing coordinates).
SourceRows == <<
    [id |-> 1, name |-> <<"R", "e", "x">>, sex_upon_outcome |-> "Intact Male",
     color |-> "Black", animal_type |-> "Dog", breed |-> "Labrador", age |-> 312,
     outcome_type |-> "Adoption", lat |-> TRUE, long |-> TRUE],
    [id |-> 2, name |-> <<"*", "M", "a", "x">>, sex_upon_outcome |-> "Spayed Female",
     color |-> "", animal_type |-> "Cat", breed |-> "Mix", age |-> 52,
     outcome_type |-> "Transfer", lat |-> TRUE, long |-> TRUE],
    [id |-> 3, name |-> NameNaN, sex_upon_outcome |-> NullStr,
     color |-> "Tan", animal_type |-> "Dog", breed |-> "Mix", age |-> 313,
     outcome_type |-> "Adoption", lat |-> TRUE, long |-> TRUE],
    [id |-> 4, name |-> <<" ", "*">>, sex_upon_outcome |-> "Unknown",
     color |-> NullStr, animal_type |-> "Cat", breed |-> NullStr, age |-> NaN,
     outcome_type |-> "Adoption", lat |-> TRUE, long |-> TRUE],
    [id |-> 5, name |-> <<>>, sex_upon_outcome |-> "Neutered Male",
     color |-> "White", animal_type |-> "Dog", breed |-> "Labrador", age |-> 600,
     outcome_type |-> "Transfer", lat |-> TRUE, long |-> TRUE],
    [id |-> 6, name |-> <<"R", "e", "x">>, sex_upon_outcome |-> "Intact Male",
     color |-> "Black", animal_type |-> "Dog", breed |-> "Poodle", age |-> 53,
     outcome_type |-> "Adoption", lat |-> TRUE, long |-> FALSE],
    [id |-> 7, name |-> <<"*", "*">>, sex_upon_outcome |-> "",
     color |-> "Black", animal_type |-> "Cat", breed |-> "Siamese", age |-> 26,
     outcome_type |-> "Transfer", lat |-> TRUE, long |-> TRUE],
    [id |-> 8, name |-> <<" ">>, sex_upon_outcome |-> NullStr,
     color |-> "", animal_type |-> "Other", breed |-> "", age |-> 0,
     outcome_type |-> NullStr, lat |-> FALSE, long |-> TRUE] >>

\* The rows of s at the positions in keep, in order.
RECURSIVE SubList(_, _)
SubList(s, keep) ==
    IF s = <<>> THEN <<>>
    ELSE LET rest == SubList(Tail(s), {i - 1 : i \in keep \ {1}})
         IN IF 1 \in keep THEN <<Head(s)>> \o rest ELSE rest

\* The contents the file may have.
CsvFiles == {SubList(SubSeq(SourceRows, 1, MaxRows), keep) : keep \in SUBSET (1..MaxRows)}

\* A dataframe: whether it has the columns of the schema, and its rows.
\* pd.DataFrame() has neither.
EmptyDataFrame == [columns |-> FALSE, rows |-> <<>>]

\* Mutant of HasCoordinates: only the latitude is required.
HasLatitude(r) == r.lat

\* df.dropna(subset=['location_lat', 'location_long'])
HasCoordinates(r) == r.lat /\ r.long

\* load_animal_data: the rows with coordinates, or pd.DataFrame() when reading fails.
load_animal_data(file, readable) ==
    IF readable
    THEN [columns |-> TRUE, rows |-> SelectSeq(file, HasCoordinates)]
    ELSE EmptyDataFrame

\* fillna('Unknown') then replace('', 'Unknown') on one display column.
CleanText(v) == IF v \in {NullStr, ""} THEN "Unknown" ELSE v

\* The same on the name column.
FillName(n) == IF n \in {NameNaN, <<>>} THEN NameUnknown ELSE n

\* str.replace('*', '', regex=False)
RemoveAsterisks(n) == SelectSeq(n, LAMBDA ch : ch # "*")

\* str.strip(): leading and trailing whitespace removed.
RECURSIVE Strip(_)
Strip(n) ==
    IF n = <<>> THEN n
    ELSE IF Head(n) = " " THEN Strip(Tail(n))
    ELSE IF n[Len(n)] = " " THEN Strip(SubSeq(n, 1, Len(n) - 1))
    ELSE n

\* The name as prepare_dashboard_data leaves it: filled, then cleaned.
CleanName(n) == Strip(RemoveAsterisks(FillName(n)))

\* A count with its unit, the unit in the plural unless the count is 1.
Counted(n, unit) == ToString(n) \o " " \o unit \o (IF n # 1 THEN "s" ELSE "")

\* Mutant of MonthsOf: a month is taken as 4 weeks.
MonthsOfFourWeeks(remaining_weeks) == remaining_weeks \div 4

\* int(remaining_weeks // 4.33)
MonthsOf(remaining_weeks) == (remaining_weeks * 100) \div 433

\* convert_age_to_readable, on a whole number of weeks or NaN.
convert_age_to_readable(weeks) ==
    IF weeks = NaN \/ weeks = 0 THEN "Unknown"
    ELSE LET years == weeks \div 52
             months == MonthsOf(weeks % 52)
         IN IF years > 0
            THEN IF months > 0
                 THEN Counted(years, "year") \o ", " \o Counted(months, "month")
                 ELSE Counted(years, "year")
            ELSE IF months > 0 THEN Counted(months, "month")
            ELSE Counted(weeks, "week")

\* One row as prepare_dashboard_data leaves it.
PrepareRow(r) ==
    [id |-> r.id,
     name |-> CleanName(r.name),
     animal_type |-> CleanText(r.animal_type),
     breed |-> CleanText(r.breed),
     sex_upon_outcome |-> CleanText(r.sex_upon_outcome),
     age |-> r.age,
     age_readable |-> convert_age_to_readable(r.age),
     color |-> CleanText(r.color),
     outcome_type |-> CleanText(r.outcome_type),
     lat |-> r.lat, long |-> r.long]

\* prepare_dashboard_data: returns an empty dataframe as it is.
prepare_dashboard_data(d) ==
    IF d.rows = <<>> THEN d
    ELSE [d EXCEPT !.rows = [i \in 1..Len(d.rows) |-> PrepareRow(d.rows[i])]]

\* Mutant of ArgumentAfterPrepare: the columns are cleaned in place.
ArgumentAfterPrepareInPlace(d) == prepare_dashboard_data(d)

\* The dataframe passed to prepare_dashboard_data, after the call: the
\* function works on df.copy().
ArgumentAfterPrepare(d) == d

\* dashboard.py, module level: df = load_animal_data(), prepared when not empty.
WorkingDataset(file, readable) == prepare_dashboard_data(load_animal_data(file, readable))

(***************************************************************************)
(* The controls of the layout (dashboard.py).                              *)
(***************************************************************************)
\* Values of the animal-type-filter dropdown.
TypeOptions == {"All", "Dog", "Cat", "Other", "Bird", "Livestock"}
\* Ends of the age-range-slider.
SliderMin == 0
SliderMax == 520
\* Slider positions a run may choose (multiples of the slider's step of 26).
SliderStops == {SliderMin, 52, 312, SliderMax}
AgeRanges == {<<lo, hi>> : lo \in SliderStops, hi \in SliderStops} \cap
             {r \in Int \X Int : r[1] <= r[2]}
\* The quick-filter buttons, and those of them that select an age band.
AgeButtons == {"btn-young", "btn-adult", "btn-senior"}
QuickButtons == AgeButtons \cup {"btn-available"}
Buttons == QuickButtons \cup {"btn-reset"}

(***************************************************************************)
(* The filter callback update_dashboard_filters (dashboard.py).            *)
(***************************************************************************)
\* Alphabetical order of the breed names, for sorted().
BreedOrder == <<"Labrador", "Mix", "Poodle", "Siamese", "Unknown">>

\* The values of a column of rows, as a set (unique()).
BreedsOf(rows) == {rows[i].breed : i \in 1..Len(rows)}

\* sorted(breeds.dropna().unique())
SortedBreeds(rows) == SelectSeq(BreedOrder, LAMBDA x : x \in BreedsOf(rows) /\ x # NullStr)

\* [{'label': 'All Breeds', 'value': 'All'}] extended by the sorted breeds.
BreedOptionList(rows) == <<"All">> \o SortedBreeds(rows)

\* df[df['animal_type'] == animal_type]
RowsOfType(rows, t) == SelectSeq(rows, LAMBDA r : r.animal_type = t)

\* Breed options for the animal type passed in.
AvailableBreedOptions(rows, t) ==
    IF t = "All" THEN BreedOptionList(rows) ELSE BreedOptionList(RowsOfType(rows, t))

\* Mutant of IsReset: the button's id is misspelt, so the branch is never taken.
IsResetMisspelt(button_id) == button_id = "reset-btn"

\* The trigger is the reset button.
IsReset(button_id) == button_id = "btn-reset"

\* The reset branch.
ResetResult(d) ==
    [raised |-> FALSE, data |-> d.rows, animal_type |-> "All", breed |-> "All",
     options |-> BreedOptionList(d.rows), age_range |-> <<SliderMin, SliderMax>>]

\* Mutant of BreedAfterTypeChange: the breed selection survives a type change.
BreedAfterTypeChangeKept(button_id, selected_breed) == selected_breed

\* The breed selection after "reset breed selection when animal type changes".
BreedAfterTypeChange(button_id, selected_breed) ==
    IF button_id = "animal-type-filter" THEN "All" ELSE selected_breed

\* Mutant of QuickFilter: the adult band starts at 52 weeks, not after them.
QuickFilterAdultFrom52(button_id, rows) ==
    CASE button_id = "btn-young" -> SelectSeq(rows, LAMBDA r : AgeLe(r.age, 52))
      [] button_id = "btn-adult" ->
            SelectSeq(rows, LAMBDA r : AgeGe(r.age, 52) /\ AgeLe(r.age, 312))
      [] button_id = "btn-senior" -> SelectSeq(rows, LAMBDA r : AgeGt(r.age, 312))
      [] button_id = "btn-available" ->
            SelectSeq(rows, LAMBDA r : r.outcome_type = "Adoption")
      [] OTHER -> rows

\* The rows a quick-filter button keeps (all rows for any other trigger).
QuickFilter(button_id, rows) ==
    CASE button_id = "btn-young" -> SelectSeq(rows, LAMBDA r : AgeLe(r.age, 52))
      [] button_id = "btn-adult" ->
            SelectSeq(rows, LAMBDA r : AgeGt(r.age, 52) /\ AgeLe(r.age, 312))
      [] button_id = "btn-senior" -> SelectSeq(rows, LAMBDA r : AgeGt(r.age, 312))
      [] button_id = "btn-available" ->
            SelectSeq(rows, LAMBDA r : r.outcome_type = "Adoption")
      [] OTHER -> rows

\* Mutant of AfterQuick: a quick filter leaves the selectors as they were.
AfterQuickKeeps(button_id, v) == v

\* A selector value after the quick-filter branches: 'All' when one was taken.
AfterQuick(button_id, v) == IF button_id \in QuickButtons THEN "All" ELSE v

\* Animal type filter.
TypeFilter(rows, t) ==
    IF Truthy(t) /\ t # "All" THEN SelectSeq(rows, LAMBDA r : r.animal_type = t) ELSE rows

\* Mutant of BreedFilter: the breed criterion is not applied.
BreedFilterSkipped(rows, b) == rows

\* Breed filter.
BreedFilter(rows, b) ==
    IF Truthy(b) /\ b # "All" THEN SelectSeq(rows, LAMBDA r : r.breed = b) ELSE rows

\* Mutant of AgeRangeFilter: the slider is applied after an age-band button too.
AgeRangeFilterAlways(rows, button_id, r) ==
    SelectSeq(rows, LAMBDA x : AgeGe(x.age, r[1]) /\ AgeLe(x.age, r[2]))

\* Age range filter, skipped if an age-band button was used.
AgeRangeFilter(rows, button_id, r) ==
    IF button_id \notin AgeButtons
    THEN SelectSeq(rows, LAMBDA x : AgeGe(x.age, r[1]) /\ AgeLe(x.age, r[2]))
    ELSE rows

\* The outcome of an invocation whose exception left the callback.
Raised == [raised |-> TRUE, data |-> <<>>, animal_type |-> NoneVal, breed |-> NoneVal,
           options |-> <<>>, age_range |-> <<SliderMin, SliderMin>>]

\* The body of the try block, on a dataframe that has its columns.
FilterBody(d, button_id, t, b, r) ==
    IF IsReset(button_id) THEN ResetResult(d)
    ELSE LET options == AvailableBreedOptions(d.rows, t)
             b1 == BreedAfterTypeChange(button_id, b)
             quick == QuickFilter(button_id, d.rows)
             t2 == AfterQuick(button_id, t)
             b2 == AfterQuick(button_id, b1)
             filtered == AgeRangeFilter(BreedFilter(TypeFilter(quick, t2), b2), button_id, r)
         IN [raised |-> FALSE, data |-> filtered, animal_type |-> t2, breed |-> b2,
             options |-> options, age_range |-> r]

\* update_dashboard_filters. On a dataframe without columns df['breed'] raises
\* KeyError in the try block on every path, and again in the except block.
update_dashboard_filters(d, button_id, t, b, r) ==
    IF d.columns THEN FilterBody(d, button_id, t, b, r) ELSE Raised

(***************************************************************************)
(* The page: construction, the page-load invocation, and the user's events.*)
(***************************************************************************)
\* The arguments of an invocation.
\* after_quick: the invocation before this one was triggered by a quick filter.
Args(button_id, t, b, r) ==
    [button_id |-> button_id, animal_type |-> t, selected_breed |-> b, age_range |-> r,
     after_quick |-> FALSE]

\* Mutant of DatasetAfterInvocation: the callback assigns the filtered frame to df.
DatasetAfterInvocationRebound(d, out) == [d EXCEPT !.rows = out.data]

\* The module-level df after an invocation: the callback filters a copy
\* (df_filtered) and never assigns df.
DatasetAfterInvocation(d, out) == d

\* Mutant of Invoke: the breed selector is no output of the callback, so it
\* keeps the value passed in.
InvokeBreedNotWritten(button_id, t, b, r) ==
    \E out \in {update_dashboard_filters(df, button_id, t, b, r)} :
       /\ call' = [Args(button_id, t, b, r) EXCEPT
                      !.after_quick = call.button_id \in QuickButtons]
       /\ raised' = out.raised
       /\ table' = IF out.raised THEN table ELSE out.data
       /\ animal_type' = IF out.raised THEN t ELSE out.animal_type
       /\ breed' = b
       /\ breed_options' = IF out.raised THEN breed_options ELSE out.options
       /\ age_range' = IF out.raised THEN r ELSE out.age_range
       /\ df' = DatasetAfterInvocation(df, out)
       /\ UNCHANGED <<csv, raw, crudVars>>

\* Mutant of Invoke: the callback filters the rows the table shows, not df.
InvokeOnTable(button_id, t, b, r) ==
    \E out \in {update_dashboard_filters([df EXCEPT !.rows = table], button_id, t, b, r)} :
       /\ call' = [Args(button_id, t, b, r) EXCEPT
                      !.after_quick = call.button_id \in QuickButtons]
       /\ raised' = out.raised
       /\ table' = IF out.raised THEN table ELSE out.data
       /\ animal_type' = IF out.raised THEN t ELSE out.animal_type
       /\ breed' = IF out.raised THEN b ELSE out.breed
       /\ breed_options' = IF out.raised THEN breed_options ELSE out.options
       /\ age_range' = IF out.raised THEN r ELSE out.age_range
       /\ df' = DatasetAfterInvocation(df, out)
       /\ UNCHANGED <<csv, raw, crudVars>>

\* Dash runs the callback on the control values (the triggering one already
\* changed) and writes its five outputs; a raised exception writes none.
Invoke(button_id, t, b, r) ==
    \E out \in {update_dashboard_filters(df, button_id, t, b, r)} :
       /\ call' = [Args(button_id, t, b, r) EXCEPT
                      !.after_quick = call.button_id \in QuickButtons]
       /\ raised' = out.raised
       /\ table' = IF out.raised THEN table ELSE out.data
       /\ animal_type' = IF out.raised THEN t ELSE out.animal_type
       /\ breed' = IF out.raised THEN b ELSE out.breed
       /\ breed_options' = IF out.raised THEN breed_options ELSE out.options
       /\ age_range' = IF out.raised THEN r ELSE out.age_range
       /\ df' = DatasetAfterInvocation(df, out)
       /\ UNCHANGED <<csv, raw, crudVars>>

\* The layout as constructed around the dataset d.
Layout(d) ==
    /\ df = d
    /\ pc = "start"
    /\ animal_type = "All"
    /\ breed = "All"
    /\ age_range = <<SliderMin, SliderMax>>
    /\ breed_options = <<"All">>
    /\ table = d.rows
    /\ call = Args(NoneVal, NoneVal, NoneVal, <<SliderMin, SliderMin>>)
    /\ raised = FALSE

\* The module as imported: the file loaded and prepared, the layout built.
Started(file, readable) ==
    /\ csv = file
    /\ raw = load_animal_data(file, readable)
    /\ Layout(WorkingDataset(file, readable))

\* The page-load invocation: nothing triggered it.
InitialCall ==
    /\ pc = "start"
    /\ pc' = "ready"
    /\ Invoke(NoneVal, animal_type, breed, age_range)

\* The user picks (or clears) the animal type.
SelectAnimalType ==
    /\ pc = "ready"
    /\ \E v \in TypeOptions \cup {NoneVal} :
          /\ v # animal_type
          /\ Invoke("animal-type-filter", v, breed, age_range)
    /\ UNCHANGED pc

\* The user picks one of the breed options offered (or clears the selection).
SelectBreed ==
    /\ pc = "ready"
    /\ \E v \in {breed_options[i] : i \in 1..Len(breed_options)} \cup {NoneVal} :
          /\ v # breed
          /\ Invoke("breed-filter", animal_type, v, age_range)
    /\ UNCHANGED pc

\* The user moves the slider.
MoveSlider ==
    /\ pc = "ready"
    /\ \E r \in AgeRanges :
          /\ r # age_range
          /\ Invoke("age-range-slider", animal_type, breed, r)
    /\ UNCHANGED pc

\* The user clicks a quick-filter button or the reset button.
ClickButton ==
    /\ pc = "ready"
    /\ \E button \in Buttons : Invoke(button, animal_type, breed, age_range)
    /\ UNCHANGED pc

(***************************************************************************)
(* The document store behind AnimalShelter (crud.py): the pymongo          *)
(* collection calls, on documents kept in natural order.                   *)
(***************************************************************************)
\* Fields of a document besides _id, and the values a run may store in them
\* (NoneVal is a null field).
Fields == {"animal_type", "name"}
FieldValues == [animal_type |-> {"Dog", "Cat"}, name |-> {"Rex", NoneVal}]
Documents == [_id : 1..MaxDocs, animal_type : FieldValues.animal_type, name : FieldValues.name]

\* Python arguments: a dict (its items), None, or a non-empty string.
Items == UNION {{f \in [S -> {"Dog", "Cat", "Rex", NoneVal}] : \A k \in S : f[k] \in FieldValues[k]} :
                S \in SUBSET Fields}
NoItems == [k \in {} |-> NoneVal]
PyDict(items) == [type |-> "dict", items |-> items]
PyNone == [type |-> "NoneType", items |-> NoItems]
PyStr == [type |-> "str", items |-> NoItems]
Dicts == {PyDict(items) : items \in Items}
\* Dicts naming at most one field.
SmallDicts == {d \in Dicts : Cardinality(DOMAIN d.items) <= 1}

\* isinstance(x, dict)
IsDict(x) == x.type = "dict"
\* bool(x): an empty dict and None are falsy.
Bool(x) == CASE x.type = "dict" -> DOMAIN x.items # {}
             [] x.type = "NoneType" -> FALSE
             [] OTHER -> TRUE

\* A document matches a query of field equalities.
Matches(doc, items) == \A k \in DOMAIN items : doc[k] = items[k]

\* collection.find(query), as a list.
find(coll, items) == SelectSeq(coll, LAMBDA doc : Matches(doc, items))

\* The document after {"$set": items}.
SetFields(doc, items) ==
    [k \in DOMAIN doc |-> IF k \in DOMAIN items THEN items[k] ELSE doc[k]]

\* Positions of the documents matching the query.
MatchingAt(coll, items) == {i \in 1..Len(coll) : Matches(coll[i], items)}

\* The least element of a non-empty set of positions.
First(S) == CHOOSE i \in S : \A j \in S : i <= j

\* The collection after $set on the documents at the positions in at, and
\* modified_count: the documents the update changed.
UpdateAt(coll, at, items) ==
    LET after == [i \in 1..Len(coll) |->
                    IF i \in at THEN SetFields(coll[i], items) ELSE coll[i]]
    IN [coll |-> after, count |-> Cardinality({i \in at : after[i] # coll[i]})]

\* collection.update_many(query, {"$set": items})
update_many(coll, query, items) == UpdateAt(coll, MatchingAt(coll, query), items)

\* Mutant of update_one: every matching document is updated.
update_one_all(coll, query, items) == update_many(coll, query, items)

\* collection.update_one(query, {"$set": items}): the first match only.
update_one(coll, query, items) ==
    LET at == MatchingAt(coll, query)
    IN UpdateAt(coll, IF at = {} THEN {} ELSE {First(at)}, items)

\* The collection without the documents at the positions in at, and deleted_count.
DeleteAt(coll, at) ==
    [coll |-> SubList(coll, (1..Len(coll)) \ at), count |-> Cardinality(at)]

\* collection.delete_many(query)
delete_many(coll, query) == DeleteAt(coll, MatchingAt(coll, query))

\* Mutant of delete_one: every matching document is deleted.
delete_one_all(coll, query) == delete_many(coll, query)

\* collection.delete_one(query): the first match only.
delete_one(coll, query) ==
    LET at == MatchingAt(coll, query)
    IN DeleteAt(coll, IF at = {} THEN {} ELSE {First(at)})

(***************************************************************************)
(* AnimalShelter (crud.py). storeFails: the driver call raises; the method *)
(* catches it.                                                             *)
(***************************************************************************)
\* The record of a call: what it was given, what it returned, the collection before it.
\* Every method body runs inside try / except Exception, so no call ends by
\* raising: raised is FALSE. data and ok are create's argument and result.
Call(name, query, new_values, multiple, failed, docs, count) ==
    [name |-> name, query |-> query, new_values |-> new_values, multiple |-> multiple,
     failed |-> failed, docs |-> docs, count |-> count, before |-> collection,
     data |-> PyNone, ok |-> FALSE, raised |-> FALSE]

\* The driver call of a method raises: the store fails, or self.collection was
\* never set (AttributeError).
Fails(storeFails) == storeFails \/ ~connected

\* The _id the store gives the next document (ids are capped by MaxDocs).
NextId(coll) ==
    IF coll = <<>> THEN 1
    ELSE 1 + (CHOOSE m \in {coll[i]._id : i \in 1..Len(coll)} :
                 \A i \in 1..Len(coll) : coll[i]._id <= m)

\* collection.insert_one(data): the document is appended with a fresh _id.
insert_one(coll, items) ==
    Append(coll, [_id |-> NextId(coll), animal_type |-> items.animal_type,
                  name |-> items.name])

\* AnimalShelter.create: the collection afterwards and the returned boolean
\* (result.acknowledged is True under the default write concern).
create(coll, data, storeFails) ==
    IF Bool(data) /\ IsDict(data)
    THEN IF storeFails THEN [coll |-> coll, ok |-> FALSE]
         ELSE [coll |-> insert_one(coll, data.items), ok |-> TRUE]
    ELSE [coll |-> coll, ok |-> FALSE]

\* AnimalShelter.read: a list.
read(coll, query, storeFails) ==
    IF Bool(query) /\ IsDict(query)
    THEN IF storeFails THEN <<>> ELSE find(coll, query.items)
    ELSE <<>>

\* Mutant of CleanNulls: the documents are returned as stored.
CleanNullsSkipped(doc) == doc

\* read_all's cleaning of one document: None becomes "" (an _id is never None).
CleanNulls(doc) ==
    [k \in DOMAIN doc |-> IF k \in Fields /\ doc[k] = NoneVal THEN "" ELSE doc[k]]

\* AnimalShelter.read_all: a list.
read_all(coll, storeFails) ==
    IF storeFails THEN <<>>
    ELSE LET results == find(coll, NoItems)
         IN [i \in 1..Len(results) |-> CleanNulls(results[i])]

\* AnimalShelter.update: the collection afterwards and the returned number.
\* An empty new_values ({"$set": {}}) is refused by older servers and a no-op
\* on newer ones: nothing changes and 0 is returned either way.
update(coll, query, new_values, multiple, storeFails) ==
    IF IsDict(query) /\ IsDict(new_values)
    THEN IF storeFails THEN [coll |-> coll, count |-> 0]
         ELSE IF multiple THEN update_many(coll, query.items, new_values.items)
         ELSE update_one(coll, query.items, new_values.items)
    ELSE [coll |-> coll, count |-> 0]

\* Mutant of delete: the store fails after it removed the documents.
delete_fails_late(coll, query, multiple, storeFails) ==
    IF IsDict(query)
    THEN IF storeFails THEN [coll |-> delete_many(coll, query.items).coll, count |-> 0]
         ELSE IF multiple THEN delete_many(coll, query.items)
         ELSE delete_one(coll, query.items)
    ELSE [coll |-> coll, count |-> 0]

\* AnimalShelter.delete: the collection afterwards and the returned number.
delete(coll, query, multiple, storeFails) ==
    IF IsDict(query)
    THEN IF storeFails THEN [coll |-> coll, count |-> 0]
         ELSE IF multiple THEN delete_many(coll, query.items)
         ELSE delete_one(coll, query.items)
    ELSE [coll |-> coll, count |-> 0]

\* Arguments a client may pass.
QueryArgs == SmallDicts \cup {PyDict([animal_type |-> "Dog", name |-> NoneVal]), PyNone, PyStr}
ValueArgs == SmallDicts \cup {PyNone}
\* Records a client may pass to create: complete records, the empty dict, no dict.
DataArgs == {d \in Dicts : DOMAIN d.items \in {Fields, {}}} \cup {PyNone, PyStr}

\* A client calls create(data).
Create ==
    /\ \E data \in DataArgs, storeFails \in BOOLEAN :
          \E out \in {create(collection, data, Fails(storeFails))} :
             /\ out.ok => NextId(collection) <= MaxDocs
             /\ collection' = out.coll
             /\ op' = [Call("create", PyNone, PyNone, FALSE, Fails(storeFails), <<>>, 0)
                         EXCEPT !.data = data, !.ok = out.ok]
    /\ UNCHANGED <<dashVars, connected>>

\* A client calls read(query).
Read ==
    /\ \E query \in QueryArgs, storeFails \in BOOLEAN :
          op' = Call("read", query, PyNone, FALSE, Fails(storeFails),
                     read(collection, query, Fails(storeFails)), 0)
    /\ UNCHANGED <<collection, dashVars, connected>>

\* A client calls read_all().
ReadAll ==
    /\ \E storeFails \in BOOLEAN :
          op' = Call("read_all", PyNone, PyNone, FALSE, Fails(storeFails),
                     read_all(collection, Fails(storeFails)), 0)
    /\ UNCHANGED <<collection, dashVars, connected>>

\* A client calls update(query, new_values, multiple).
Update ==
    /\ \E query \in QueryArgs, new_values \in ValueArgs, multiple \in BOOLEAN,
          storeFails \in BOOLEAN :
          \E out \in {update(collection, query, new_values, multiple, Fails(storeFails))} :
             /\ collection' = out.coll
             /\ op' = Call("update", query, new_values, multiple, Fails(storeFails),
                           <<>>, out.count)
    /\ UNCHANGED <<dashVars, connected>>

\* A client calls delete(query, multiple).
Delete ==
    /\ \E query \in QueryArgs, multiple \in BOOLEAN, storeFails \in BOOLEAN :
          \E out \in {delete(collection, query, multiple, Fails(storeFails))} :
             /\ collection' = out.coll
             /\ op' = Call("delete", query, PyNone, multiple, Fails(storeFails),
                           <<>>, out.count)
    /\ UNCHANGED <<dashVars, connected>>

\* No call has been made yet.
NoCall == [name |-> "none", query |-> PyNone, new_values |-> PyNone, multiple |-> FALSE,
           failed |-> FALSE, docs |-> <<>>, count |-> 0, before |-> <<>>,
           data |-> PyNone, ok |-> FALSE, raised |-> FALSE]

\* The collections a run may start from: documents with distinct ids.
Collections ==
    UNION {{c \in [1..n -> Documents] : \A i \in 1..n : c[i]._id = i} : n \in 0..MaxDocs}

\* The data-access object over an existing collection; the dashboard is not running.
InitCrud ==
    /\ collection \in Collections
    /\ op = NoCall
    /\ connected \in BOOLEAN
    /\ Started(<<>>, FALSE)

NextCrud == Create \/ Read \/ ReadAll \/ Update \/ Delete

SpecCrud == InitCrud /\ [][NextCrud]_vars

(***************************************************************************)
(* The dashboard as a program: startup, then the page's events.            *)
(***************************************************************************)
\* The dashboard makes no AnimalShelter; the collection is not touched.
CrudIdle ==
    /\ collection = <<>>
    /\ op = NoCall
    /\ connected = FALSE

\* Startup with a readable file.
Init ==
    /\ \E file \in CsvFiles : Started(file, TRUE)
    /\ CrudIdle

Next == InitialCall \/ SelectAnimalType \/ SelectBreed \/ MoveSlider \/ ClickButton

Spec == Init /\ [][Next]_vars

\* Startup when the file cannot be read.
InitLoadFailed ==
    /\ \E file \in CsvFiles : Started(file, FALSE)
    /\ CrudIdle

SpecLoadFailed == InitLoadFailed /\ [][Next]_vars

(***************************************************************************)
(* The startup of dashboard.py, step by step, on one-row files.            *)
(***************************************************************************)
\* Names a one-row file may hold.
StartupNames == {<<"R", "e", "x">>, <<"*", "M", "a", "x">>, <<"*", "*">>, <<" ">>,
                 NameNaN, <<>>}
\* Its text cells are all present, all missing, or all empty.
CellStates == {"present", NullStr, ""}
Cell(value, state) == IF state = "present" THEN value ELSE state

\* A row of the given age and name.
StartupRow(weeks, n, state) ==
    [id |-> 1, name |-> n, sex_upon_outcome |-> Cell("Intact Male", state),
     color |-> Cell("Black", state), animal_type |-> Cell("Dog", state),
     breed |-> Cell("Mix", state), age |-> weeks,
     outcome_type |-> Cell("Adoption", state), lat |-> TRUE, long |-> TRUE]

StartupFiles ==
    {<<StartupRow(weeks, n, state)>> :
        weeks \in (0..MaxWeeks) \cup {NaN}, n \in StartupNames, state \in CellStates}
    \cup {<<>>}

\* Before the module is imported.
InitStartup ==
    /\ csv \in StartupFiles
    /\ raw = EmptyDataFrame
    /\ df = EmptyDataFrame
    /\ pc = "file"
    /\ animal_type = "All"
    /\ breed = "All"
    /\ age_range = <<SliderMin, SliderMax>>
    /\ breed_options = <<"All">>
    /\ table = <<>>
    /\ call = Args(NoneVal, NoneVal, NoneVal, <<SliderMin, SliderMin>>)
    /\ raised = FALSE
    /\ CrudIdle

\* df = load_animal_data()
LoadData ==
    /\ pc = "file"
    /\ \E readable \in BOOLEAN :
          /\ raw' = load_animal_data(csv, readable)
          /\ df' = raw'
    /\ pc' = "loaded"
    /\ UNCHANGED <<csv, animal_type, breed, age_range, breed_options, table, call, raised,
                   crudVars>>

\* if not df.empty: df = prepare_dashboard_data(df)
PrepareData ==
    /\ pc = "loaded"
    /\ df' = IF raw.rows # <<>> THEN prepare_dashboard_data(raw) ELSE raw
    /\ raw' = IF raw.rows # <<>> THEN ArgumentAfterPrepare(raw) ELSE raw
    /\ pc' = "prepared"
    /\ UNCHANGED <<csv, animal_type, breed, age_range, breed_options, table, call, raised,
                   crudVars>>

NextStartup == LoadData \/ PrepareData

SpecStartup == InitStartup /\ [][NextStartup]_vars

(***************************************************************************)
(* Properties of the filter callback.                                      *)
(***************************************************************************)
\* The last invocation returned (the page shows its outputs).
Returned == pc = "ready" /\ ~raised

\* The rows of the working dataset, as a set, and those shown in the table.
DatasetRows == {df.rows[i] : i \in 1..Len(df.rows)}
TableRows == {table[i] : i \in 1..Len(table)}

\* A selector value that names a criterion: a selection other than 'All'.
Selects(v) == v # "All" /\ v # NoneVal

\* The row's age is known and lies in the range.
InRange(r, range) == r.age # NaN /\ range[1] <= r.age /\ r.age <= range[2]

\* The row satisfies every active criterion of the controls.
MeetsCriteria(r) ==
    /\ Selects(animal_type) => r.animal_type = animal_type
    /\ Selects(breed) => r.breed = breed
    /\ InRange(r, age_range)

\* C1: after an invocation triggered by neither a quick filter nor reset, the
\* table is exactly the dataset rows (in dataset order) that match the selected
\* type, the selected breed and the slider range together.
C1_ConjunctiveFilter ==
    (Returned /\ call.button_id \notin Buttons)
        => table = SelectSeq(df.rows, MeetsCriteria)

\* C1 witness: type Dog and breed Mix are selected by the breed dropdown, the
\* dataset has a Mix of another type and a Dog of another breed, and rows remain.
C1_Witness ==
    /\ Returned
    /\ call.button_id = "breed-filter"
    /\ animal_type = "Dog" /\ breed = "Mix"
    /\ table # <<>>
    /\ \E r \in DatasetRows : r.animal_type # "Dog" /\ r.breed = "Mix"
    /\ \E r \in DatasetRows : r.animal_type = "Dog" /\ r.breed # "Mix"

\* C2: after a reset the table is the full working dataset and the controls
\* hold the defaults All / All / [0, 520].
C2_ResetRestoresDefaults ==
    (pc = "ready" /\ call.button_id = "btn-reset")
        => /\ ~raised
           /\ table = df.rows
           /\ animal_type = "All"
           /\ breed = "All"
           /\ age_range = <<0, 520>>

\* C2 witness: reset was clicked while a type, a breed and a narrowed range were
\* set, on a dataset those controls had restricted.
C2_Witness ==
    /\ pc = "ready"
    /\ call.button_id = "btn-reset"
    /\ call.animal_type = "Dog"
    /\ call.selected_breed = "Labrador"
    /\ call.age_range = <<0, 52>>
    /\ \E r \in DatasetRows : r.animal_type = "Cat"
    /\ Len(table) >= 3

\* C3: when the dataset failed to load, every invocation returns an empty table
\* and the default control values, and raises nothing.
C3_LoadFailureFailsSoft ==
    (pc = "ready" /\ ~df.columns)
        => /\ ~raised
           /\ table = <<>>
           /\ animal_type = "All"
           /\ breed = "All"
           /\ age_range = <<0, 520>>

\* The breeds of the dataset rows of the selected type (of all rows for 'All').
BreedsForSelectedType ==
    {r.breed : r \in {x \in DatasetRows : animal_type = "All" \/ x.animal_type = animal_type}}

\* C4: after every invocation the breed options are 'All' plus exactly the
\* breeds of the dataset rows of the animal type selected after it.
C4_BreedOptionsFollowType ==
    Returned =>
        {breed_options[i] : i \in 1..Len(breed_options)} = {"All"} \cup BreedsForSelectedType

\* The row is kept by the named quick filter, given the slider range.
QuickKeeps(button_id, r, range) ==
    CASE button_id = "btn-young" -> r.age # NaN /\ r.age <= 52
      [] button_id = "btn-adult" -> r.age # NaN /\ 52 < r.age /\ r.age <= 312
      [] button_id = "btn-senior" -> r.age # NaN /\ 312 < r.age
      [] button_id = "btn-available" -> r.outcome_type = "Adoption" /\ InRange(r, range)

\* C5: after a quick filter the type and breed selectors are both 'All', and a
\* dataset row is in the table exactly when the quick filter keeps it, whatever
\* type and breed were selected before.
C5_QuickFilterOverrides ==
    (Returned /\ call.button_id \in QuickButtons)
        => /\ animal_type = "All"
           /\ breed = "All"
           /\ \A r \in DatasetRows :
                 r \in TableRows <=> QuickKeeps(call.button_id, r, call.age_range)

\* C5 witness: a quick filter was used while Dog / Labrador was selected, and
\* the table shows a row of another type and another breed.
C5_Witness ==
    /\ Returned
    /\ call.button_id \in QuickButtons
    /\ call.animal_type = "Dog"
    /\ call.selected_breed = "Labrador"
    /\ \E r \in TableRows : r.animal_type # "Dog" /\ r.breed # "Labrador"

\* The row is older than 312 weeks.
IsSenior(r) == r.age # NaN /\ r.age > 312

\* C6: after the senior quick filter the table is exactly the dataset rows
\* older than 312 weeks, whatever the type, breed and slider range were.
C6_SeniorFilter ==
    (Returned /\ call.button_id = "btn-senior") => table = SelectSeq(df.rows, IsSenior)

\* C6 witness: senior was clicked while Cat and the range [0, 52] were set, and
\* the table shows some but not all rows, a row aged 312 weeks being left out.
C6_Witness ==
    /\ Returned
    /\ call.button_id = "btn-senior"
    /\ call.animal_type = "Cat"
    /\ call.age_range = <<0, 52>>
    /\ table # <<>>
    /\ \E r \in DatasetRows \ TableRows : r.age = 312

(***************************************************************************)
(* Properties of the data-access object.                                   *)
(***************************************************************************)
\* Positions of op.before whose document is still stored, and is stored changed.
IdsOf(coll) == {coll[i]._id : i \in 1..Len(coll)}
DocWithId(coll, id) == CHOOSE d \in {coll[i] : i \in 1..Len(coll)} : d._id = id
ChangedIds == {id \in IdsOf(op.before) \cap IdsOf(collection) :
                  DocWithId(collection, id) # DocWithId(op.before, id)}
RemovedIds == IdsOf(op.before) \ IdsOf(collection)

\* The document of op.before with this id matches the query of the call.
MatchedBefore(id) == IsDict(op.query) /\ Matches(DocWithId(op.before, id), op.query.items)

\* C7: read_all() returns no null field value; when the store answers, it
\* returns every document of the collection, in order, each null field given
\* as the empty string and every other field as stored.
C7_ReadAllNoNulls ==
    op.name = "read_all" =>
        /\ \A i \in 1..Len(op.docs) : \A k \in Fields : op.docs[i][k] # NoneVal
        /\ ~op.failed =>
              /\ Len(op.docs) = Len(collection)
              /\ \A i \in 1..Len(collection) :
                    /\ op.docs[i]._id = collection[i]._id
                    /\ \A k \in Fields :
                          op.docs[i][k] =
                              IF collection[i][k] = NoneVal THEN "" ELSE collection[i][k]

\* C7 witness: read_all() answered on a collection of two documents, one with
\* a null name, which it returned as the empty string.
C7_Witness ==
    /\ op.name = "read_all"
    /\ ~op.failed
    /\ Len(collection) = 2
    /\ \E i \in 1..Len(collection) : collection[i].name = NoneVal /\ op.docs[i].name = ""
    /\ \E i \in 1..Len(collection) : collection[i].name # NoneVal

\* C8: update leaves the number and the ids of the documents as they were and
\* changes only documents that matched the query; with multiple=False it
\* changes at most one; with multiple=True (the store answering) every document
\* that matched holds the new values afterwards; the returned number is the
\* number of documents changed.
C8_UpdateOneOrAll ==
    op.name = "update" =>
        /\ Len(collection) = Len(op.before)
        /\ \A i \in 1..Len(collection) : collection[i]._id = op.before[i]._id
        /\ \A id \in ChangedIds : MatchedBefore(id)
        /\ ~op.multiple => Cardinality(ChangedIds) <= 1
        /\ (op.multiple /\ ~op.failed /\ IsDict(op.query) /\ IsDict(op.new_values)) =>
              \A id \in IdsOf(op.before) :
                  MatchedBefore(id) =>
                      \A k \in DOMAIN op.new_values.items :
                          DocWithId(collection, id)[k] = op.new_values.items[k]
        /\ op.count = Cardinality(ChangedIds)

\* C8 witness: update with multiple=False on a collection where two documents
\* matched the query and the new values differed from both; one was changed.
C8_Witness ==
    /\ op.name = "update"
    /\ ~op.multiple
    /\ op.count = 1
    /\ Cardinality({id \in IdsOf(op.before) : MatchedBefore(id)}) = 2
    /\ \A id \in IdsOf(op.before) :
          \E k \in DOMAIN op.new_values.items :
              DocWithId(op.before, id)[k] # op.new_values.items[k]

\* C9: delete removes only documents that matched the query and leaves the
\* others as they were, in order; with multiple=False it removes at most one;
\* with multiple=True (the store answering) no document that matched remains;
\* the returned number is the number of documents removed.
C9_DeleteOneOrAll ==
    op.name = "delete" =>
        /\ collection = SelectSeq(op.before, LAMBDA d : d._id \notin RemovedIds)
        /\ \A id \in RemovedIds : MatchedBefore(id)
        /\ ~op.multiple => Cardinality(RemovedIds) <= 1
        /\ (op.multiple /\ ~op.failed /\ IsDict(op.query)) =>
              \A id \in IdsOf(collection) : ~MatchedBefore(id)
        /\ op.count = Cardinality(RemovedIds)

\* C9 witness: delete with multiple=False on a collection where two documents
\* matched the query; one was removed and the other remains.
C9_Witness ==
    /\ op.name = "delete"
    /\ ~op.multiple
    /\ op.count = 1
    /\ Cardinality({id \in IdsOf(op.before) : MatchedBefore(id)}) = 2
    /\ Len(collection) = 1

\* C10: for every dict query, the empty dict included, read(query) returns
\* exactly the documents matching it unless the store raises; so it returns
\* the empty list only when nothing matches, the query is no dict, or the
\* store raises.
C10_ReadReturnsMatches ==
    (op.name = "read" /\ IsDict(op.query) /\ ~op.failed)
        => op.docs = SelectSeq(collection, LAMBDA d : Matches(d, op.query.items))

\* The document create was given, as the store holds it under this id.
Inserted(id) ==
    [_id |-> id, animal_type |-> op.data.items.animal_type, name |-> op.data.items.name]

\* C11: for every dict record (the store answering) create(record) returns
\* true and the collection is the one before plus exactly that record, which a
\* read of it then finds; otherwise it returns false and inserts nothing.
C11_CreateInsertsOne ==
    op.name = "create" =>
        IF IsDict(op.data) /\ ~op.failed
        THEN /\ op.ok
             /\ Len(collection) = Len(op.before) + 1
             /\ SubSeq(collection, 1, Len(op.before)) = op.before
             /\ DOMAIN op.data.items = Fields
             /\ collection[Len(collection)] = Inserted(collection[Len(collection)]._id)
             /\ collection[Len(collection)]._id \notin IdsOf(op.before)
        ELSE ~op.ok /\ collection = op.before

\* The call was given an argument that is no dict.
BadInput ==
    CASE op.name = "create" -> ~IsDict(op.data)
      [] op.name = "read" -> ~IsDict(op.query)
      [] op.name = "update" -> ~IsDict(op.query) \/ ~IsDict(op.new_values)
      [] op.name = "delete" -> ~IsDict(op.query)
      [] OTHER -> FALSE

FileRows == {csv[i] : i \in 1..Len(csv)}
LoadedRows == {raw.rows[i] : i \in 1..Len(raw.rows)}

\* C13: the loaded dataframe holds exactly the file's rows that have both
\* coordinates, and every row of the working dataset and of the table has both.
C13_CoordinatesRequired ==
    /\ LoadedRows = {r \in FileRows : r.lat /\ r.long}
    /\ \A r \in DatasetRows \cup TableRows : r.lat /\ r.long

\* C13 witness: the file held a row without a longitude and rows with both
\* coordinates, and a filter event left rows in the table.
C13_Witness ==
    /\ Returned
    /\ call.button_id = "btn-available"
    /\ table # <<>>
    /\ \E r \in FileRows : r.lat /\ ~r.long
    /\ Cardinality(LoadedRows) >= 2

\* floor(r / 4.33) for a whole number r of weeks below 52.
WholeMonths(r) == CHOOSE m \in 0..12 : 433 * m <= 100 * r /\ 100 * r < 433 * (m + 1)

\* A component of the age text.
YearsText(y) == IF y = 1 THEN "1 year" ELSE ToString(y) \o " years"
MonthsText(m) == IF m = 1 THEN "1 month" ELSE ToString(m) \o " months"
WeeksText(w) == IF w = 1 THEN "1 week" ELSE ToString(w) \o " weeks"

\* The age text the claim gives a whole number of weeks above 0.
AgeText(w) ==
    LET y == w \div 52
        m == WholeMonths(w % 52)
    IN IF y = 0 /\ m = 0 THEN WeeksText(w)
       ELSE IF m = 0 THEN YearsText(y)
       ELSE IF y = 0 THEN MonthsText(m)
       ELSE YearsText(y) \o ", " \o MonthsText(m)

\* C14: the readable age of 0 weeks or a missing age is "Unknown", of 52 weeks
\* "1 year", of 60 weeks "1 year, 1 month"; of w > 0 whole weeks it is
\* floor(w / 52) years and floor((w mod 52) / 4.33) months, a zero component
\* left out, a component in the plural unless it is 1, and "w week(s)" only
\* when both are 0.
C14_AgeReadable ==
    (pc = "prepared" /\ df.rows # <<>>) =>
        \A i \in 1..Len(df.rows) :
            LET w == df.rows[i].age
                text == df.rows[i].age_readable
            IN /\ (w = NaN \/ w = 0) => text = "Unknown"
               /\ w = 52 => text = "1 year"
               /\ w = 60 => text = "1 year, 1 month"
               /\ w > 0 => text = AgeText(w)

\* C14 witness: a row aged 60 weeks was prepared and reads "1 year, 1 month".
C14_Witness ==
    /\ pc = "prepared"
    /\ df.rows # <<>>
    /\ df.rows[1].age = 60
    /\ df.rows[1].age_readable = "1 year, 1 month"

\* C15: after any sequence of events the working dataset is the one prepared
\* at startup, and every row of the table is a row of it.
C15_DatasetReadOnly ==
    pc \in {"start", "ready"} =>
        /\ df = prepare_dashboard_data(load_animal_data(csv, TRUE))
        /\ TableRows \subseteq DatasetRows

\* C15 witness: after a quick filter, a breed selection left some but not all
\* rows of the dataset in the table.
C15_Witness ==
    /\ Returned
    /\ call.after_quick
    /\ call.button_id = "breed-filter"
    /\ table # <<>>
    /\ Len(table) < Len(df.rows)

\* The display columns besides the name.
TextColumns == {"animal_type", "breed", "sex_upon_outcome", "color", "outcome_type"}

\* C16: after prepare_dashboard_data no display value of the result is null or
\* the empty string (a missing or empty value reads 'Unknown'), whatever the
\* names were, and the dataframe it was given is as load_animal_data returned it.
C16_NoMissingDisplayValues ==
    pc = "prepared" =>
        /\ \A i \in 1..Len(df.rows) :
              /\ df.rows[i].name \notin {NameNaN, <<>>}
              /\ raw.rows[i].name \in {NameNaN, <<>>} => df.rows[i].name = NameUnknown
              /\ \A c \in TextColumns :
                    /\ df.rows[i][c] \notin {NullStr, ""}
                    /\ raw.rows[i][c] \in {NullStr, ""} => df.rows[i][c] = "Unknown"
        /\ LoadedRows \subseteq FileRows

\* C17: after an invocation triggered by the animal-type selector the breed is
\* 'All' and the table is every dataset row of the selected type (any type for
\* 'All' or a cleared selector) within the age range, whatever breed was
\* selected before.
C17_TypeChangeResetsBreed ==
    (Returned /\ call.button_id = "animal-type-filter") =>
        /\ breed = "All"
        /\ animal_type = call.animal_type
        /\ \A r \in DatasetRows :
              r \in TableRows <=>
                  /\ Selects(call.animal_type) => r.animal_type = call.animal_type
                  /\ InRange(r, call.age_range)

\* C17 witness: the type was changed to Cat while the breed Labrador, which no
\* cat has, was selected, and the table shows cats.
C17_Witness ==
    /\ Returned
    /\ call.button_id = "animal-type-filter"
    /\ call.animal_type = "Cat"
    /\ call.selected_breed = "Labrador"
    /\ table # <<>>

\* The age-band buttons whose filter keeps the row.
BandsOf(r) ==
    {b \in AgeButtons :
        r \in {QuickFilter(b, df.rows)[i] : i \in 1..Len(QuickFilter(b, df.rows))}}

\* C18: after an age-band button the table is exactly the rows of the band
\* (age <= 52, 52 < age <= 312, age > 312), whatever the slider says, and the
\* slider value is returned as it was; every row with a known age is in
\* exactly one band.
C18_AgeBandsSkipSlider ==
    Returned =>
        /\ call.button_id \in AgeButtons =>
              /\ table = SelectSeq(df.rows,
                                   LAMBDA r : QuickKeeps(call.button_id, r, call.age_range))
              /\ age_range = call.age_range
        /\ \A r \in DatasetRows : r.age # NaN => Cardinality(BandsOf(r)) = 1

\* C18 witness: adult was clicked while the slider was [0, 52]; the table shows
\* rows, and leaves out a row aged exactly 52 weeks.
C18_Witness ==
    /\ Returned
    /\ call.button_id = "btn-adult"
    /\ call.age_range = <<0, 52>>
    /\ table # <<>>
    /\ \E r \in DatasetRows \ TableRows : r.age = 52

\* C19: an invocation that is neither a reset nor a quick filter, made with
\* the default control values All / All / [0, 520], returns the full working
\* dataset, as a reset does.
C19_DefaultsShowEverything ==
    (/\ Returned
     /\ call.button_id \notin Buttons
     /\ call.animal_type = "All"
     /\ call.selected_breed = "All"
     /\ call.age_range = <<0, 520>>) => table = df.rows

\* The rows the table shows given only the arguments of the last invocation.
ShownFor(c, r) ==
    CASE c.button_id = "btn-reset" -> TRUE
      [] c.button_id \in QuickButtons -> QuickKeeps(c.button_id, r, c.age_range)
      [] c.button_id = "animal-type-filter" ->
            /\ Selects(c.animal_type) => r.animal_type = c.animal_type
            /\ InRange(r, c.age_range)
      [] OTHER ->
            /\ Selects(c.animal_type) => r.animal_type = c.animal_type
            /\ Selects(c.selected_breed) => r.breed = c.selected_breed
            /\ InRange(r, c.age_range)

\* C20: the table is determined by the trigger and the type, breed and range
\* passed to the last invocation alone; so after a quick filter, the next
\* type, breed or slider event shows the plain conjunctive filter.
C20_HistoryIndependent ==
    Returned => table = SelectSeq(df.rows, LAMBDA r : ShownFor(call, r))

\* C20 witness: right after a quick filter the slider was moved to [0, 520],
\* and the table shows more rows than any quick filter keeps of this dataset.
C20_Witness ==
    /\ Returned
    /\ call.after_quick
    /\ call.button_id = "age-range-slider"
    /\ call.age_range = <<0, 520>>
    /\ \A b \in QuickButtons : Len(table) > Len(QuickFilter(b, df.rows))

\* The breed options the last invocation returned, as a set.
OptionsReturned == {breed_options[i] : i \in 1..Len(breed_options)}

\* C21: whenever the breed passed to the callback was picked, not cleared, the
\* breed the callback returns is 'All' or one of the breed options that same
\* invocation returns.
C21_BreedAmongOptions ==
    (Returned /\ call.selected_breed # NoneVal) =>
        breed = "All" \/ breed \in OptionsReturned

\* C21 witness: right after a quick filter the user picked a breed other than
\* 'All' from the options then offered; it is returned, among the options of
\* every type.
C21_Witness ==
    /\ Returned
    /\ call.after_quick
    /\ call.button_id = "breed-filter"
    /\ call.selected_breed \notin {"All", NoneVal}
    /\ breed = call.selected_breed
    /\ animal_type = "All"
    /\ OptionsReturned = {"All"} \cup BreedsOf(df.rows)

====
